---- MODULE Spec2Model ----
(***************************************************************************)
(* KPluginMetaData (src/src/lib/plugin/kpluginmetadata.cpp): the JSON      *)
(* backed plugin descriptor, its accessors and the discovery routines      *)
(* findPlugins / findPluginById.                                           *)
(*                                                                         *)
(* Strings are sequences of one-character strings, so that path handling   *)
(* (completeBaseName, startsWith, concatenation) is computed and not       *)
(* assumed.  JSON values are records with a type tag.                      *)
(***************************************************************************)
EXTENDS Integers, Sequences, FiniteSets, TLC

(***************************************************************************)
(* QString                                                                 *)
(***************************************************************************)
EmptyStr == << >>

\* QString::isEmpty
isEmpty(s) == Len(s) = 0

\* QString::startsWith(QChar)
startsWith(s, c) == Len(s) > 0 /\ s[1] = c

\* QString::lastIndexOf(QChar), 0 when the character does not occur
lastIndexOf(s, c) ==
    LET hits == {i \in 1..Len(s) : s[i] = c}
    IN  IF hits = {} THEN 0 ELSE CHOOSE i \in hits : \A j \in hits : j <= i

\* QFileInfo::fileName: what follows the last '/'
fileNameOf(path) == SubSeq(path, lastIndexOf(path, "/") + 1, Len(path))

\* QFileInfo::completeBaseName: the file name up to (not including) its last '.'
completeBaseName(path) ==
    LET fn  == fileNameOf(path)
        dot == lastIndexOf(fn, ".")
    IN  IF dot = 0 THEN fn ELSE SubSeq(fn, 1, dot - 1)

\* QFileInfo::suffix: what follows the last '.' of the file name
suffixOf(path) ==
    LET fn  == fileNameOf(path)
        dot == lastIndexOf(fn, ".")
    IN  IF dot = 0 THEN EmptyStr ELSE SubSeq(fn, dot + 1, Len(fn))

(***************************************************************************)
(* QJsonValue / QJsonObject                                                *)
(***************************************************************************)
\* QJsonObject(): the object without keys
EmptyObj == [k \in {} |-> 0]

\* a number is n, or n + 1/2 when h is set
JUndef  == [type |-> "Undefined", b |-> FALSE, n |-> 0, h |-> FALSE, s |-> EmptyStr, a |-> << >>, o |-> EmptyObj]
JNull   == [type |-> "Null",      b |-> FALSE, n |-> 0, h |-> FALSE, s |-> EmptyStr, a |-> << >>, o |-> EmptyObj]
JBool(x) == [type |-> "Bool",   b |-> x,     n |-> 0, h |-> FALSE, s |-> EmptyStr, a |-> << >>, o |-> EmptyObj]
JNum(x)  == [type |-> "Double", b |-> FALSE, n |-> x, h |-> FALSE, s |-> EmptyStr, a |-> << >>, o |-> EmptyObj]
JHalf(x) == [type |-> "Double", b |-> FALSE, n |-> x, h |-> TRUE,  s |-> EmptyStr, a |-> << >>, o |-> EmptyObj]
JStr(x)  == [type |-> "String", b |-> FALSE, n |-> 0, h |-> FALSE, s |-> x,        a |-> << >>, o |-> EmptyObj]
JArr(x)  == [type |-> "Array",  b |-> FALSE, n |-> 0, h |-> FALSE, s |-> EmptyStr, a |-> x,     o |-> EmptyObj]
JObj(x)  == [type |-> "Object", b |-> FALSE, n |-> 0, h |-> FALSE, s |-> EmptyStr, a |-> << >>, o |-> x]

\* QJsonObject::isEmpty
objIsEmpty(obj) == DOMAIN obj = {}

\* QJsonObject::value(key): Undefined when the key is absent
objValue(obj, key) == IF key \in DOMAIN obj THEN obj[key] ELSE JUndef

\* QJsonValue::toObject(): the empty object for a non-object
toObject(v) == IF v.type = "Object" THEN v.o ELSE EmptyObj

\* QJsonValue::toString(): the empty string for a non-string
toString(v) == IF v.type = "String" THEN v.s ELSE EmptyStr

\* QString::number for an int
Digit(d) == <<"0","1","2","3","4","5","6","7","8","9">>[d + 1]

RECURSIVE natToStr(_)
natToStr(n) == IF n < 10 THEN <<Digit(n)>> ELSE natToStr(n \div 10) \o <<Digit(n % 10)>>

numberToStr(n) == IF n < 0 THEN <<"-">> \o natToStr(0 - n) ELSE natToStr(n)

\* QJsonValue::toVariant().toString() of an array element or scalar
variantToString(v) ==
    CASE v.type = "String" -> v.s
      [] v.type = "Bool"   -> IF v.b THEN <<"t","r","u","e">> ELSE <<"f","a","l","s","e">>
      [] v.type = "Double" -> IF v.h THEN numberToStr(v.n) \o <<".","5">> ELSE numberToStr(v.n)
      [] OTHER             -> EmptyStr

\* QJsonValue::toVariant().toStringList(): an array gives its elements'
\* string forms, a string gives a one-element list, anything else nothing
toStringList(v) ==
    CASE v.type = "Array"  -> [i \in 1..Len(v.a) |-> variantToString(v.a[i])]
      [] v.type = "String" -> <<v.s>>
      [] OTHER             -> << >>

\* QStringList::contains
contains(list, s) == \E i \in 1..Len(list) : list[i] = s

(***************************************************************************)
(* State                                                                   *)
(***************************************************************************)
VARIABLES
    disk,          \* the file system: a sequence of files in iteration order
    registry,      \* KStaticPluginHelpers: the static plugins, with their directory
    libraryPaths,  \* QCoreApplication::libraryPaths()
    mimeParents,   \* QMimeDatabase: known MIME type -> its direct parents
    m,             \* the KPluginMetaData value under test
    other,         \* a second value, a copy of an earlier m
    origin,        \* how m was constructed
    res,           \* the last query and what it returned
    pc,            \* findPlugins: "idle", "static" (static loop) or "disk" (forEachPlugin)
    args,          \* findPlugins: directory, filter and option of the call
    ret,           \* findPlugins: the result list built so far
    addedPluginIds,\* findPlugins: the identifiers recorded by the disk walk
    staticQueue,   \* findPlugins: the static plugins still to visit
    fileQueue,     \* forEachPlugin: the plugin files still to hand to the callback
    returned,      \* the lists returned by the completed findPlugins calls
    dirs,          \* forEachPlugin's dirsToCheck during the disk walk
    job,           \* the TestJob of the job test: its KJob state
    events,        \* the posted events of the thread, oldest first
    loop,          \* the event loop that is running, if any
    test           \* KJobTest: its members, the destroyed spy and its position

metaVars == <<m, other, origin, res>>
envVars  == <<disk, registry, libraryPaths, mimeParents>>
findVars == <<pc, args, ret, addedPluginIds, staticQueue, fileQueue, returned, dirs>>
jobVars == <<job, events, loop, test>>
restVars == <<envVars, findVars, jobVars>>

\* KPluginMetaData::KPluginMetaDataOption
DoNotAllowEmptyMetaData == "DoNotAllowEmptyMetaData"
AllowEmptyMetaData      == "AllowEmptyMetaData"
Options == {DoNotAllowEmptyMetaData, AllowEmptyMetaData}

\* QCoreApplication::applicationDirPath()
appDirPath == <<"/","x">>

\* KPluginMetaDataPrivate: the fields of a freshly allocated private object.
\* staticPlugin is 0 for std::nullopt, else the registry index of the plugin.
NewPrivate ==
    [m_requestedFileName |-> EmptyStr,
     m_option            |-> DoNotAllowEmptyMetaData,
     staticPlugin        |-> 0,
     m_metaData          |-> EmptyObj,
     m_fileName          |-> EmptyStr]

(***************************************************************************)
(* The file system and the plugin loader                                   *)
(***************************************************************************)
\* a file of the disk: plugin binaries carry the loader's metadata object
\* in qt, JSON files their parsed document in doc
File(path, readable, isPlugin, loads, qt, parses, doc) ==
    [path |-> path, readable |-> readable, isPlugin |-> isPlugin, loads |-> loads,
     qt |-> qt, parses |-> parses, doc |-> doc]

NoFile == File(EmptyStr, FALSE, FALSE, FALSE, EmptyObj, FALSE, JNull)

\* QFileInfo(path).isFile()
isFile(d, path) == \E i \in 1..Len(d) : d[i].path = path

fileAt(d, path) ==
    IF isFile(d, path) THEN d[CHOOSE i \in 1..Len(d) : d[i].path = path] ELSE NoFile

\* QFileInfo::absolutePath: what precedes the last '/'
dirOf(path) == SubSeq(path, 1, lastIndexOf(path, "/") - 1)

\* the first element of a sequence of candidates that is a file, else empty
RECURSIVE firstFile(_, _)
firstFile(d, cands) ==
    IF cands = << >> THEN EmptyStr
    ELSE IF isFile(d, Head(cands)) THEN Head(cands)
    ELSE firstFile(d, Tail(cands))

\* QPluginLoader::setFileName followed by fileName(): the name as given or
\* with the platform's library suffix; a relative name is looked up in the
\* library paths; empty when nothing is found
loaderFileName(d, libs, name) ==
    IF isEmpty(name) THEN EmptyStr
    ELSE IF startsWith(name, "/")
    THEN firstFile(d, <<name, name \o <<".","s","o">> >>)
    ELSE firstFile(d, [i \in 1..(2 * Len(libs)) |->
            IF i % 2 = 1 THEN libs[(i + 1) \div 2] \o <<"/">> \o name
            ELSE libs[i \div 2] \o <<"/">> \o name \o <<".","s","o">>])

\* KPluginMetaDataPrivate::getPluginLoaderForPath, as the loader's fileName()
getPluginLoaderForPath(d, libs, path) ==
    IF startsWith(path, "/")
    THEN loaderFileName(d, libs, path)
    ELSE LET inApp == loaderFileName(d, libs, appDirPath \o <<"/">> \o path)
         IN  IF isEmpty(inApp) THEN loaderFileName(d, libs, path) ELSE inApp

\* QPluginLoader::metaData(): empty unless the file is a plugin
loaderMetaData(d, fileName) ==
    LET f == fileAt(d, fileName) IN IF f.isPlugin THEN f.qt ELSE EmptyObj

\* QPluginLoader::load()
loaderLoad(d, fileName) == fileAt(d, fileName).isPlugin /\ fileAt(d, fileName).loads

\* QLibrary::isLibrary on this platform: the suffix is "so"
isLibrary(fileName) == suffixOf(fileName) = <<"s","o">>

(***************************************************************************)
(* KPluginMetaData: accessors                                              *)
(***************************************************************************)
\* KPluginMetaData::rootObject
rootObject(md) == toObject(objValue(md.m_metaData, "KPlugin"))

\* pluginId taking QFileInfo::baseName (up to the first '.') for the file
pluginId_baseName(md) ==
    LET root == rootObject(md)
        id   == toString(objValue(root, "Id"))
        fn   == fileNameOf(md.m_fileName)
        dots == {i \in 1..Len(fn) : fn[i] = "."}
    IN  IF "Id" \in DOMAIN root /\ ~isEmpty(id) THEN id
        ELSE IF isEmpty(md.m_fileName) THEN EmptyStr
        ELSE IF dots = {} THEN fn
        ELSE SubSeq(fn, 1, (CHOOSE i \in dots : \A j \in dots : i <= j) - 1)

\* KPluginMetaData::pluginId
pluginId(md) ==
    LET root == rootObject(md)
        id   == toString(objValue(root, "Id"))
    IN  IF "Id" \in DOMAIN root /\ ~isEmpty(id) THEN id
        ELSE IF isEmpty(md.m_fileName) THEN EmptyStr
        ELSE completeBaseName(md.m_fileName)

\* isValid that never honours AllowEmptyMetaData
isValid_ignoresOption(md) ==
    ~isEmpty(pluginId(md)) /\ ~objIsEmpty(md.m_metaData)

\* KPluginMetaData::isValid
isValid(md) ==
    ~isEmpty(pluginId(md)) /\ (~objIsEmpty(md.m_metaData) \/ md.m_option = AllowEmptyMetaData)

\* operator== that also compares the construction option
opEq_withOption(md, rhs) ==
    md.m_fileName = rhs.m_fileName /\ md.m_metaData = rhs.m_metaData /\ md.m_option = rhs.m_option

\* operator== that compares the file paths only
opEq_fileNameOnly(md, rhs) == md.m_fileName = rhs.m_fileName

\* KPluginMetaData::operator==
opEq(md, rhs) == md.m_fileName = rhs.m_fileName /\ md.m_metaData = rhs.m_metaData

\* KPluginMetaData::rawData
rawData(md) == md.m_metaData

\* KPluginMetaData::mimeTypes
mimeTypes(md) == toStringList(objValue(rootObject(md), "MimeTypes"))

\* QMimeDatabase::mimeTypeForName(name).isValid()
mimeIsValid(db, name) == name \in DOMAIN db

\* the MIME types reached from a set of types through at most n parent steps
RECURSIVE ancestors(_, _, _)
ancestors(db, names, n) ==
    IF n = 0 THEN names
    ELSE ancestors(db, names \cup UNION {db[x] : x \in names \cap DOMAIN db}, n - 1)

\* QMimeType::inherits: the type itself or one of its ancestors
mimeInherits(db, name, supported) ==
    name = supported \/ supported \in ancestors(db, {name}, Cardinality(DOMAIN db))

\* supportsMimeType without the exact-match fast path
supportsMimeType_noFastPath(md, db, mimeType) ==
    /\ mimeIsValid(db, mimeType)
    /\ \E i \in 1..Len(mimeTypes(md)) : mimeInherits(db, mimeType, mimeTypes(md)[i])

\* KPluginMetaData::supportsMimeType
supportsMimeType(md, db, mimeType) ==
    LET mimes == mimeTypes(md)
    IN  IF contains(mimes, mimeType) THEN TRUE
        ELSE IF ~mimeIsValid(db, mimeType) THEN FALSE
        ELSE \E i \in 1..Len(mimes) : mimeInherits(db, mimeType, mimes[i])

\* QStringList::join(',')
RECURSIVE join(_)
join(list) ==
    IF list = << >> THEN EmptyStr
    ELSE IF Len(list) = 1 THEN list[1]
    ELSE list[1] \o <<",">> \o join(Tail(list))

S_true  == <<"t","r","u","e">>
S_false == <<"f","a","l","s","e">>

\* value() looking the key up in the "KPlugin" object
valueEntry_inRoot(md, key) == objValue(rootObject(md), key)

\* d->m_metaData.value(key): the JSON value a value() overload coerces
valueEntry(md, key) == objValue(md.m_metaData, key)

\* KPluginMetaData::value(const QString &key, const QString &defaultValue)
valueString(md, key, defaultValue) ==
    LET value == valueEntry(md, key)
    IN  CASE value.type = "String" -> value.s
          [] value.type = "Array"  -> join(toStringList(value))
          [] value.type = "Bool"   -> IF value.b THEN S_true ELSE S_false
          [] OTHER                 -> defaultValue

\* KPluginMetaData::value(const QString &key, bool defaultValue)
valueBool(md, key, defaultValue) ==
    LET value == valueEntry(md, key)
    IN  CASE value.type = "Bool"   -> value.b
          [] value.type = "String" -> value.s = S_true
          [] OTHER                 -> defaultValue

\* QString::toInt: an optional sign and decimal digits within the range of
\* int; ok is false otherwise
DigitChars == {"0","1","2","3","4","5","6","7","8","9"}
DigitValue(c) == CHOOSE d \in 0..9 : Digit(d) = c

RECURSIVE digitsToNat(_)
digitsToNat(ds) ==
    IF ds = << >> THEN 0 ELSE 10 * digitsToNat(SubSeq(ds, 1, Len(ds) - 1)) + DigitValue(ds[Len(ds)])

IntMax == 2147483647

strToInt(str) ==
    LET signed == Len(str) > 0 /\ str[1] \in {"-", "+"}
        neg    == signed /\ str[1] = "-"
        ds     == IF signed THEN Tail(str) ELSE str
        okDs   == Len(ds) > 0 /\ Len(ds) <= 10 /\ \A i \in 1..Len(ds) : ds[i] \in DigitChars
        \* the numeral without its last digit, and that digit (ten digits only)
        high   == IF okDs THEN digitsToNat(SubSeq(ds, 1, Len(ds) - 1)) ELSE 0
        low    == IF okDs THEN DigitValue(ds[Len(ds)]) ELSE 0
        edge   == IntMax \div 10
        fits   == Len(ds) < 10 \/ high < edge \/ (high = edge /\ low <= (IF neg THEN 8 ELSE 7))
        ok     == okDs /\ fits
        n      == IF ~ok THEN 0
                  ELSE IF neg THEN (0 - 10 * high) - low
                  ELSE 10 * high + low
    IN  [ok |-> ok, n |-> n]

\* QJsonValue::toInt(): the number when it is whole (every n of the model is
\* in the range of int), else toInt's own default, 0
toInt(v) ==
    IF v.type = "Double" /\ ~v.h THEN v.n ELSE 0

\* KPluginMetaData::value(const QString &key, int defaultValue)
valueInt(md, key, defaultValue) ==
    LET value == valueEntry(md, key)
    IN  CASE value.type = "Double" -> toInt(value)
          [] value.type = "String" -> IF strToInt(value.s).ok THEN strToInt(value.s).n ELSE defaultValue
          [] OTHER                 -> defaultValue

\* the string-list overload wrapping every scalar, the empty string too
valueStringList_wrapsEmpty(md, key, defaultValue) ==
    LET value    == valueEntry(md, key)
        asString == IF value.type = "String" THEN value.s ELSE variantToString(value)
    IN  CASE value.type \in {"Undefined", "Null"} -> defaultValue
          [] value.type = "Object"                -> defaultValue
          [] value.type = "Array"                 -> toStringList(value)
          [] OTHER -> <<asString>>

\* KPluginMetaData::value(const QString &key, const QStringList &defaultValue)
valueStringList(md, key, defaultValue) ==
    LET value    == valueEntry(md, key)
        asString == IF value.type = "String" THEN value.s ELSE variantToString(value)
    IN  CASE value.type \in {"Undefined", "Null"} -> defaultValue
          [] value.type = "Object"                -> defaultValue
          [] value.type = "Array"                 -> toStringList(value)
          [] OTHER -> IF isEmpty(asString) THEN defaultValue ELSE <<asString>>

(***************************************************************************)
(* KPluginMetaData: construction                                           *)
(***************************************************************************)
\* KStaticPluginHelpers::staticPlugins(directory): the registry indices of
\* the plugins registered for the directory, in registration order
staticPlugins(reg, directory) ==
    SelectSeq([i \in 1..Len(reg) |-> i], LAMBDA i : reg[i].dir = directory)

\* KPluginMetaData::KPluginMetaData()
ctorDefault == NewPrivate

\* the binary-path constructor keeping the loader's whole metadata object
ctorPluginFile_wholeObject(d, libs, pluginFile, option) ==
    LET fileName   == getPluginLoaderForPath(d, libs, pluginFile)
        qtMetaData == loaderMetaData(d, fileName)
    IN  [NewPrivate EXCEPT
            !.m_option            = option,
            !.m_requestedFileName = pluginFile,
            !.m_fileName          = fileName,
            !.m_metaData          = qtMetaData]

\* KPluginMetaData::KPluginMetaData(const QString &pluginFile, KPluginMetaDataOption)
ctorPluginFile(d, libs, pluginFile, option) ==
    LET fileName   == getPluginLoaderForPath(d, libs, pluginFile)
        qtMetaData == loaderMetaData(d, fileName)
    IN  [NewPrivate EXCEPT
            !.m_option            = option,
            !.m_requestedFileName = pluginFile,
            !.m_fileName          = fileName,
            !.m_metaData          = IF ~objIsEmpty(qtMetaData)
                                    THEN toObject(objValue(qtMetaData, "MetaData"))
                                    ELSE EmptyObj]

\* KPluginMetaData::KPluginMetaData(const QJsonObject &metaData, const QString &fileName)
ctorJson(metaData, fileName) ==
    [NewPrivate EXCEPT !.m_metaData = metaData, !.m_fileName = fileName]

\* KPluginMetaDataPrivate::loadStaticPlugin: sets staticPlugin and m_option,
\* returns the file name hint and the embedded metadata
loadStaticPlugin(md, reg, k, option) ==
    LET names == toStringList(objValue(reg[k].qt, "X-KDE-FileName"))
    IN  [d        |-> [md EXCEPT !.staticPlugin = k, !.m_option = option],
         fileName |-> IF names # << >> THEN names[1] ELSE EmptyStr,
         metaData |-> toObject(objValue(reg[k].qt, "MetaData"))]

\* KPluginMetaData::KPluginMetaData(QStaticPlugin plugin, const QJsonObject &metaData)
ctorStaticPlugin(reg, k, metaData) ==
    LET result == loadStaticPlugin(NewPrivate, reg, k, DoNotAllowEmptyMetaData)
    IN  [result.d EXCEPT
            !.m_fileName = result.fileName,
            !.m_metaData = IF objIsEmpty(result.metaData) THEN metaData ELSE result.metaData]

\* the static plugin loop body of findPlugins / findPluginById
staticMetaData(reg, k, option) ==
    LET loadingResult == loadStaticPlugin(ctorDefault, reg, k, option)
    IN  [loadingResult.d EXCEPT
            !.m_fileName = loadingResult.fileName,
            !.m_metaData = loadingResult.metaData]

\* KPluginMetaData::loadFromJsonFile / fromJsonFile
loadFromJsonFile(d, file) ==
    LET f == fileAt(d, file)
    IN  IF ~(isFile(d, file) /\ f.readable) THEN NewPrivate
        ELSE [NewPrivate EXCEPT
                !.m_metaData = IF f.parses THEN toObject(f.doc) ELSE EmptyObj,
                !.m_fileName = file]

\* KPluginMetaData::findPluginById
RECURSIVE firstStaticWithId(_, _, _)
firstStaticWithId(reg, ks, id) ==
    IF ks = << >> THEN ctorDefault
    ELSE LET metaData == staticMetaData(reg, Head(ks), DoNotAllowEmptyMetaData)
         IN  IF isValid(metaData) /\ pluginId(metaData) = id THEN metaData
             ELSE firstStaticWithId(reg, Tail(ks), id)

\* findPluginById that does not compare the loaded module's identifier
findPluginById_noIdCheck(d, libs, reg, directory, id) ==
    LET fileName == getPluginLoaderForPath(d, libs, directory \o <<"/">> \o id)
        metaData == ctorJson(toObject(objValue(loaderMetaData(d, fileName), "MetaData")), fileName)
    IN  IF loaderLoad(d, fileName) /\ isValid(metaData)
        THEN metaData
        ELSE firstStaticWithId(reg, staticPlugins(reg, directory), id)

findPluginById(d, libs, reg, directory, id) ==
    LET fileName == getPluginLoaderForPath(d, libs, directory \o <<"/">> \o id)
        metaData == ctorJson(toObject(objValue(loaderMetaData(d, fileName), "MetaData")), fileName)
    IN  IF loaderLoad(d, fileName) /\ isValid(metaData) /\ pluginId(metaData) = id
        THEN metaData
        ELSE firstStaticWithId(reg, staticPlugins(reg, directory), id)

(***************************************************************************)
(* Inputs of the identity specification                                    *)
(***************************************************************************)
S_a == <<"a">>
S_b == <<"b">>
S_v == <<"v">>
D_p == <<"/","p">>
D_q == <<"/","q">>
D_d == <<"d">>
SO  == <<".","s","o">>
JSON == <<".","j","s">>

Obj1(k, v) == [x \in {k} |-> v]
Obj2(k1, v1, k2, v2) == [x \in {k1, k2} |-> IF x = k1 THEN v1 ELSE v2]

\* {"KPlugin": {"Id": id}}
WithId(id) == Obj1("KPlugin", JObj(Obj1("Id", JStr(id))))

\* the loader's metadata object of a plugin binary embedding metaData
QtMeta(metaData) == Obj2("IID", JStr(<<"i">>), "MetaData", JObj(metaData))

\* the descriptors handed to the constructors
IdValues == {JStr(EmptyStr), JStr(S_a), JNum(5)}

JsonPool ==
    LET roots == {EmptyObj} \cup {Obj1("Id", v) : v \in IdValues}
        plain == {Obj1("KPlugin", JObj(r)) : r \in roots}
    IN  {EmptyObj, Obj1("X-Test", JStr(S_v))}
        \cup plain
        \cup {[x \in {"KPlugin", "X-Test"} |-> IF x = "KPlugin" THEN o["KPlugin"] ELSE JStr(S_v)] : o \in plain}

FileNamePool ==
    {EmptyStr,
     D_p \o <<"/">> \o S_a \o SO,
     D_q \o <<"/">> \o S_a \o <<".">> \o S_b \o SO,
     D_q \o <<"/">> \o <<"c">>}

PluginFile(dir, name, loads, qt) == File(dir \o <<"/">> \o name \o SO, TRUE, TRUE, loads, qt, FALSE, JNull)

MetaDisk ==
    << PluginFile(D_p, S_a, TRUE, QtMeta(WithId(S_a))),
       PluginFile(D_p, S_b, TRUE, QtMeta(EmptyObj)),
       PluginFile(D_p, <<"c">>, TRUE, Obj1("IID", JStr(<<"i">>))),
       File(D_p \o <<"/","e">> \o SO, TRUE, FALSE, FALSE, EmptyObj, FALSE, JNull),
       PluginFile(D_p, <<"f">>, TRUE, QtMeta(Obj1("X-Test", JStr(S_v)))),
       PluginFile(D_p, <<"g">>, TRUE, QtMeta(WithId(S_a))),
       PluginFile(D_p, <<"h">>, FALSE, QtMeta(WithId(<<"h">>))),
       File(D_p \o <<"/","j">> \o JSON, TRUE, FALSE, FALSE, EmptyObj, TRUE, JObj(WithId(S_b))),
       File(D_p \o <<"/","k">> \o JSON, TRUE, FALSE, FALSE, EmptyObj, FALSE, JNull),
       File(D_p \o <<"/","l">> \o JSON, FALSE, FALSE, FALSE, EmptyObj, TRUE, JObj(WithId(S_b))),
       File(D_p \o <<"/","n">> \o JSON, TRUE, FALSE, FALSE, EmptyObj, TRUE, JArr(<<JStr(S_a)>>)),
       PluginFile(appDirPath \o <<"/">> \o D_d, S_a, TRUE, QtMeta(WithId(S_a))),
       PluginFile(D_q \o <<"/">> \o D_d, S_b, TRUE, QtMeta(WithId(S_b))) >>

StaticPlugin(dir, qt) == [dir |-> dir, qt |-> qt]

MetaRegistry ==
    << StaticPlugin(D_p, Obj2("MetaData", JObj(WithId(<<"g">>)), "X-KDE-FileName", JStr(<<"s","g">>))),
       StaticPlugin(D_p, Obj1("MetaData", JObj(EmptyObj))),
       StaticPlugin(D_p, Obj1("MetaData", JObj(Obj2("KPlugin", JObj(Obj1("Id", JStr(<<"g">>))), "X-Test", JStr(S_v))))),
       StaticPlugin(D_p, Obj2("MetaData", JObj(Obj1("X-Test", JStr(S_v))), "X-KDE-FileName", JStr(<<"h">>))),
       StaticPlugin(D_d, Obj1("MetaData", JObj(WithId(<<"c">>)))) >>

\* the paths given to the binary-path constructor and to fromJsonFile
PluginFileInputs ==
    {D_p \o <<"/">> \o n \o SO : n \in {S_a, S_b, <<"c">>, <<"e">>, <<"f">>, <<"z">>}}
    \cup {D_d \o <<"/">> \o S_a, D_d \o <<"/">> \o S_b, D_d \o <<"/","z">>}

JsonFileInputs == {D_p \o <<"/">> \o n \o JSON : n \in {<<"j">>, <<"k">>, <<"l">>, <<"n">>, <<"z">>}}

DirectoryInputs == {D_p, D_d}
PluginIdInputs  == {S_a, S_b, <<"c">>, <<"f">>, <<"g">>, <<"h">>, <<"z">>}

NoMime == [t \in {} |-> {}]

(***************************************************************************)
(* The identity specification: construct values, then query them           *)
(***************************************************************************)
Origin(how, arg, option) == [how |-> how, arg |-> arg, option |-> option]

\* the record of a query: its name, its arguments (dir, id, key and the
\* default by type) and what it returned (by return type)
ResFull(op, dir, id, key, defB, defS, defN, defL, outB, outS, outN, outL) ==
    [op |-> op, dir |-> dir, id |-> id, key |-> key,
     defB |-> defB, defS |-> defS, defN |-> defN, defL |-> defL,
     outB |-> outB, outS |-> outS, outN |-> outN, outL |-> outL]

Res(op, dir, id, outB, outS) ==
    ResFull(op, dir, id, "", FALSE, EmptyStr, 0, << >>, outB, outS, 0, << >>)

NoRes == Res("none", EmptyStr, EmptyStr, FALSE, EmptyStr)

\* the arguments of a findPlugins call
Args(directory, filter, option) == [directory |-> directory, filter |-> filter, option |-> option]


(***************************************************************************)
(* KJob as the job test drives it: a TestJob, the thread's posted events,  *)
(* the running event loop and the members of KJobTest                      *)
(***************************************************************************)
NoError          == "NoError"
KilledJobError   == "KilledJobError"
UserDefinedError == "UserDefinedError"
\* the error code 2 of the "error no text" row
ErrorTwo         == "2"

Quietly    == "Quietly"
EmitResult == "EmitResult"

\* the state of the four job variables as one value, so that the operations
\* of the job are functions of it
World(j, e, l, t) == [job |-> j, events |-> e, loop |-> l, test |-> t]

\* a posted event: its kind, the kill verbosity it carries, and for a
\* deferred delete the loop level it was posted at
Event(kind, verbosity, level) == [kind |-> kind, verbosity |-> verbosity, level |-> level]

NoLoop == [mode |-> "none", passLeft |-> 0, delivered |-> FALSE, exit |-> FALSE, wasAutoDelete |-> FALSE]

\* the nesting level of the running loop: QEventLoop::exec raises the loop
\* level, QEventLoop::processEvents does not
loopLevel(l) == IF l.mode \in {"exec", "jobExec"} THEN 1 ELSE 0

\* the level a deferred delete gets: the loop level, plus the scope level 1
\* when it is posted from an event handler
postLevel(l) == IF l.mode = "none" THEN 0 ELSE loopLevel(l) + 1

\* a finished slot that does not record the error it sees
slotFinished_forgetsError(w) ==
    [w EXCEPT !.test.sawFinished = w.job.isFinished,
              !.test.m_finishedCount = @ + 1]

\* KJobTest::slotFinished
slotFinished(w) ==
    [w EXCEPT !.test.m_lastError = IF w.job.error # NoError THEN w.job.error ELSE NoError,
              !.test.m_lastErrorText = IF w.job.error # NoError THEN w.job.errorText ELSE EmptyStr,
              !.test.sawFinished = w.job.isFinished,
              !.test.m_finishedCount = @ + 1]

\* KJobTest::slotResult; loop.quit() ends the test's loop.exec() if it runs
slotResult(w) ==
    [w EXCEPT !.test.m_lastError = IF w.job.error # NoError THEN w.job.error ELSE NoError,
              !.test.m_lastErrorText = IF w.job.error # NoError THEN w.job.errorText ELSE EmptyStr,
              !.test.sawFinished = w.job.isFinished,
              !.test.m_resultCount = @ + 1,
              !.loop.exit = IF w.loop.mode = "exec" THEN TRUE ELSE @]

\* QObject::deleteLater: one deferred delete is posted, a second is dropped
deleteLater(w) ==
    IF \E i \in 1..Len(w.events) : w.events[i].kind = "deferredDelete" THEN w
    ELSE [w EXCEPT !.events = Append(@, Event("deferredDelete", Quietly, postLevel(w.loop)))]

\* KJob::finishJob: the job is finished, the loop of exec() is told to quit,
\* finished is emitted, then result if asked, then deleteLater if autoDelete
finishJob(w, emitResult) ==
    LET w1 == [w EXCEPT !.job.isFinished = TRUE,
                        !.loop.exit = IF w.job.eventLoop /\ w.loop.mode = "jobExec" THEN TRUE ELSE @]
        w2 == slotFinished(w1)
        w3 == IF emitResult THEN slotResult(w2) ELSE w2
    IN  IF w3.job.autoDelete THEN deleteLater(w3) ELSE w3

\* KJob::emitResult
emitResult(w) == IF w.job.isFinished THEN w ELSE finishJob(w, TRUE)

\* a doKill that refuses
doKill_refuses == FALSE

\* TestJob::doKill
doKill == TRUE

\* KJob::kill
kill(w, verbosity) ==
    IF w.job.isFinished THEN w
    ELSE IF doKill
         THEN finishJob([w EXCEPT !.job.error = KilledJobError], verbosity # Quietly)
         ELSE w

\* a start that emits the result before it returns
start_immediately(w) == emitResult(w)

\* TestJob::start: a zero timer that calls emitResult
start(w) == [w EXCEPT !.events = Append(@, Event("emitResult", Quietly, 0))]

\* the events of a queue whose receiver is not the job
notForJob(queue) == SelectSeq(queue, LAMBDA e : e.kind = "quit")

\* the job is deleted: ~KJob emits finished if the job never finished, then
\* QObject emits destroyed and the events posted to the job are removed.
\* passed is the number of events of the running pass that stay
destroyJob(w, passed) ==
    LET w1 == IF w.job.isFinished THEN w
              ELSE slotFinished([w EXCEPT !.job.isFinished = TRUE])
    IN  [w1 EXCEPT !.job.alive = FALSE,
                   !.test.destroyed = @ + 1,
                   !.events = notForJob(@),
                   !.loop.passLeft = passed]

\* whether the running loop sends a deferred delete: it was posted at a
\* deeper level than the loop runs at, or outside any loop and a loop runs
allowDeferredDelete(l, e) ==
    e.level > loopLevel(l) \/ (e.level = 0 /\ loopLevel(l) > 0)

\* the job variables before the test has created its job
JobNew ==
    /\ job = [isFinished |-> FALSE, error |-> NoError, errorText |-> EmptyStr,
              autoDelete |-> TRUE, alive |-> FALSE, eventLoop |-> FALSE]
    /\ events = << >>
    /\ loop = NoLoop
    /\ test = [pc |-> "new", actions |-> << >>, autoDelete |-> TRUE,
               errorCode |-> NoError, errorText |-> EmptyStr,
               m_lastError |-> NoError, m_lastErrorText |-> EmptyStr, sawFinished |-> TRUE,
               m_resultCount |-> 0, m_finishedCount |-> 0, destroyed |-> 0]

\* no findPlugins call is under way
FindIdle ==
    /\ pc = "idle"
    /\ args = Args(EmptyStr, "null", DoNotAllowEmptyMetaData)
    /\ ret = << >>
    /\ addedPluginIds = {}
    /\ staticQueue = << >>
    /\ fileQueue = << >>
    /\ returned = << >>
    /\ dirs = << >>

Init ==
    /\ disk = MetaDisk
    /\ registry = MetaRegistry
    /\ libraryPaths = <<D_q>>
    /\ mimeParents = NoMime
    /\ m = ctorDefault
    /\ other = ctorDefault
    /\ origin = Origin("default", EmptyStr, DoNotAllowEmptyMetaData)
    /\ res = NoRes
    /\ FindIdle
    /\ JobNew

Construct(md, how, arg, option) ==
    /\ m' = md
    /\ origin' = Origin(how, arg, option)
    /\ res' = NoRes
    /\ UNCHANGED other
    /\ UNCHANGED restVars

DefaultConstruct ==
    Construct(ctorDefault, "default", EmptyStr, DoNotAllowEmptyMetaData)

ConstructFromPluginFile ==
    \E pluginFile \in PluginFileInputs, option \in Options :
        Construct(ctorPluginFile(disk, libraryPaths, pluginFile, option), "pluginFile", pluginFile, option)

ConstructFromJson ==
    \E metaData \in JsonPool, fileName \in FileNamePool :
        Construct(ctorJson(metaData, fileName), "json", fileName, DoNotAllowEmptyMetaData)

ConstructFromStaticPlugin ==
    \E k \in 1..Len(registry), metaData \in {EmptyObj, WithId(S_b)} :
        Construct(ctorStaticPlugin(registry, k, metaData), "static", EmptyStr, DoNotAllowEmptyMetaData)

FromJsonFile ==
    \E file \in JsonFileInputs :
        Construct(loadFromJsonFile(disk, file), "jsonFile", file, DoNotAllowEmptyMetaData)

\* KPluginMetaData::KPluginMetaData(const KPluginMetaData &other)
CopyConstruct ==
    /\ other # m
    /\ other' = m
    /\ res' = NoRes
    /\ UNCHANGED <<m, origin>>
    /\ UNCHANGED restVars

\* KPluginMetaData::operator=
CopyAssign ==
    /\ other # m
    /\ Construct(other, "copy", EmptyStr, other.m_option)

CallFindPluginById ==
    \E directory \in DirectoryInputs, id \in PluginIdInputs :
        /\ m' = findPluginById(disk, libraryPaths, registry, directory, id)
        /\ origin' = Origin("findPluginById", directory \o <<"/">> \o id, DoNotAllowEmptyMetaData)
        /\ res' = Res("findPluginById", directory, id, FALSE, EmptyStr)
        /\ UNCHANGED other
        /\ UNCHANGED restVars

CallIsValid ==
    /\ res' = Res("isValid", EmptyStr, EmptyStr, isValid(m), EmptyStr)
    /\ UNCHANGED <<m, other, origin>>
    /\ UNCHANGED restVars

CallPluginId ==
    /\ res' = Res("pluginId", EmptyStr, EmptyStr, FALSE, pluginId(m))
    /\ UNCHANGED <<m, other, origin>>
    /\ UNCHANGED restVars

CallEquals ==
    /\ res' = Res("operator==", EmptyStr, EmptyStr, opEq(m, other), EmptyStr)
    /\ UNCHANGED <<m, other, origin>>
    /\ UNCHANGED restVars

Next ==
    \/ DefaultConstruct
    \/ ConstructFromPluginFile
    \/ ConstructFromJson
    \/ ConstructFromStaticPlugin
    \/ FromJsonFile
    \/ CopyConstruct
    \/ CopyAssign
    \/ CallFindPluginById
    \/ CallIsValid
    \/ CallPluginId
    \/ CallEquals

vars == <<disk, registry, libraryPaths, mimeParents, m, other, origin, res,
          pc, args, ret, addedPluginIds, staticQueue, fileQueue, returned, dirs,
          job, events, loop, test>>

Spec == Init /\ [][Next]_vars

(***************************************************************************)
(* Properties of the identity specification                                *)
(***************************************************************************)
\* C1: isValid() is true exactly when pluginId() is non-empty and the raw
\* JSON object is non-empty or the value was constructed with
\* AllowEmptyMetaData, whatever constructor produced the value.
C1_IsValidIff ==
    res.op = "isValid" =>
        (res.outB <=> (pluginId(m) # EmptyStr
                       /\ (DOMAIN rawData(m) # {} \/ origin.option = AllowEmptyMetaData)))

\* isValid() answered true for a value with empty raw JSON built with AllowEmptyMetaData
C1_Witness ==
    /\ res.op = "isValid" /\ res.outB
    /\ DOMAIN rawData(m) = {}
    /\ origin.how = "pluginFile" /\ origin.option = AllowEmptyMetaData

\* the "Id" entry of the "KPlugin" object of the raw JSON, Undefined when absent
IdField(md) ==
    IF "KPlugin" \in DOMAIN md.m_metaData /\ md.m_metaData["KPlugin"].type = "Object"
       /\ "Id" \in DOMAIN md.m_metaData["KPlugin"].o
    THEN md.m_metaData["KPlugin"].o["Id"]
    ELSE JUndef

\* C2 as stated: the "Id" field is returned whenever it is present, else the
\* base name of the file path, else the empty string.
C2_IdWheneverPresent ==
    res.op = "pluginId" =>
        res.outS = IF IdField(m).type # "Undefined" THEN toString(IdField(m))
                   ELSE IF m.m_fileName # EmptyStr THEN completeBaseName(m.m_fileName)
                   ELSE EmptyStr

\* C2 amended: the "Id" field is returned when it is present and a non-empty
\* string; otherwise the file name of the path up to its last '.'; otherwise,
\* without a file path, the empty string.
C2_PluginIdResolution ==
    res.op = "pluginId" =>
        /\ res.outS = IF IdField(m).type = "String" /\ IdField(m).s # EmptyStr THEN IdField(m).s
                      ELSE IF m.m_fileName # EmptyStr THEN completeBaseName(m.m_fileName)
                      ELSE EmptyStr
        /\ (IdField(m) = JStr(S_a) => res.outS = S_a)
        /\ (IdField(m).type = "Undefined" /\ m.m_fileName = <<"/","p","/","a",".","s","o">>
                => res.outS = <<"a">>)
        /\ (IdField(m).type = "Undefined" /\ m.m_fileName = <<"/","q","/","a",".","b",".","s","o">>
                => res.outS = <<"a",".","b">>)

\* pluginId() fell back to the file name although an (empty) "Id" is present
C2_Witness ==
    /\ res.op = "pluginId"
    /\ IdField(m) = JStr(EmptyStr)
    /\ m.m_fileName = <<"/","q","/","a",".","b",".","s","o">>
    /\ res.outS = <<"a",".","b">>

\* C6: operator== is true exactly when the file paths are identical and the
\* raw JSON objects are identical; option, requested file name and static
\* plugin record take no part.
C6_EqualityIsPathAndJson ==
    res.op = "operator==" =>
        (res.outB <=> (m.m_fileName = other.m_fileName /\ m.m_metaData = other.m_metaData))

\* two values compare equal although they differ in option and requested file name
C6_Witness ==
    /\ res.op = "operator==" /\ res.outB
    /\ m.m_option # other.m_option
    /\ m.m_requestedFileName # other.m_requestedFileName

\* C18 as stated: two values that compare equal agree on every query, in
\* particular on pluginId() and on isValid().
C18_EqualAgreeOnAll ==
    res.op = "operator==" /\ res.outB =>
        /\ pluginId(m) = pluginId(other)
        /\ rawData(m) = rawData(other)
        /\ isValid(m) = isValid(other)

\* C18 amended: two values that compare equal agree on pluginId() and on
\* what is read from the JSON object and the file path; they agree on
\* isValid() when they carry the same validity option or their JSON object
\* is not empty.
C18_EqualAgreeOnPathAndJson ==
    res.op = "operator==" /\ res.outB =>
        /\ pluginId(m) = pluginId(other)
        /\ rawData(m) = rawData(other)
        /\ rootObject(m) = rootObject(other)
        /\ (m.m_option = other.m_option \/ ~objIsEmpty(m.m_metaData)
                => isValid(m) = isValid(other))

\* two values read from one plugin file with an empty "MetaData" object, one
\* with AllowEmptyMetaData and one without, compare equal; one is valid
C18_Witness ==
    /\ res.op = "operator==" /\ res.outB
    /\ m.m_fileName # EmptyStr
    /\ objIsEmpty(m.m_metaData)
    /\ isValid(m) # isValid(other)

\* the native module findPluginById tries first, as a value
NativeModule(directory, id) ==
    LET fileName == getPluginLoaderForPath(disk, libraryPaths, directory \o <<"/">> \o id)
    IN  [loads    |-> loaderLoad(disk, fileName),
         metaData |-> ctorJson(toObject(objValue(loaderMetaData(disk, fileName), "MetaData")), fileName)]

\* the registry indices of the valid static plugins of a directory with an identifier
StaticMatches(directory, id) ==
    {k \in 1..Len(registry) :
        /\ registry[k].dir = directory
        /\ isValid(staticMetaData(registry, k, DoNotAllowEmptyMetaData))
        /\ pluginId(staticMetaData(registry, k, DoNotAllowEmptyMetaData)) = id}

\* C7: findPluginById returns the native module's metadata when it loads, is
\* valid and carries the requested identifier; else the first matching valid
\* static plugin of the directory; else an invalid empty value.  A returned
\* value is invalid or carries the requested identifier.
C7_FindPluginById ==
    res.op = "findPluginById" =>
        LET native == NativeModule(res.dir, res.id)
            hits   == StaticMatches(res.dir, res.id)
        IN  /\ IF native.loads /\ isValid(native.metaData) /\ pluginId(native.metaData) = res.id
               THEN m = native.metaData
               ELSE IF hits # {}
               THEN m = staticMetaData(registry, CHOOSE k \in hits : \A j \in hits : k <= j,
                                       DoNotAllowEmptyMetaData)
               ELSE m = ctorDefault /\ ~isValid(m) /\ DOMAIN rawData(m) = {}
            /\ (isValid(m) => pluginId(m) = res.id)

\* the native module loaded with another identifier, a static plugin was returned
C7_Witness ==
    /\ res.op = "findPluginById"
    /\ NativeModule(res.dir, res.id).loads
    /\ isValid(NativeModule(res.dir, res.id).metaData)
    /\ m.staticPlugin = 1
    /\ pluginId(m) = res.id

\* the module a binary path resolves to has no or empty embedded metadata
EmbeddedMetaDataMissing(pluginFile) ==
    LET f == fileAt(disk, getPluginLoaderForPath(disk, libraryPaths, pluginFile))
    IN  \/ ~f.isPlugin
        \/ "MetaData" \notin DOMAIN f.qt
        \/ f.qt["MetaData"].type # "Object"
        \/ DOMAIN f.qt["MetaData"].o = {}

\* a JSON file cannot be opened or cannot be parsed
JsonFileFails(file) ==
    ~isFile(disk, file) \/ ~fileAt(disk, file).readable \/ ~fileAt(disk, file).parses

\* C8: a failed load yields a constructed value with empty rawData() that is
\* not valid: fromJsonFile on an unopenable or unparsable file, and the
\* binary-path constructor without AllowEmptyMetaData on a module with
\* missing or empty embedded metadata.
C8_FailedLoadIsInvalid ==
    /\ (origin.how = "jsonFile" /\ JsonFileFails(origin.arg))
            => (DOMAIN rawData(m) = {} /\ ~isValid(m) /\ (res.op = "isValid" => ~res.outB))
    /\ (origin.how = "pluginFile" /\ origin.option = DoNotAllowEmptyMetaData
        /\ EmbeddedMetaDataMissing(origin.arg))
            => (DOMAIN rawData(m) = {} /\ ~isValid(m) /\ (res.op = "isValid" => ~res.outB))

\* a plugin binary without a "MetaData" entry was constructed and found invalid
C8_Witness ==
    /\ origin.how = "pluginFile" /\ origin.option = DoNotAllowEmptyMetaData
    /\ fileAt(disk, m.m_fileName).isPlugin
    /\ "MetaData" \notin DOMAIN fileAt(disk, m.m_fileName).qt
    /\ res.op = "isValid" /\ ~res.outB

(***************************************************************************)
(* The accessor specification: value() overloads and supportsMimeType      *)
(***************************************************************************)
M_tp == <<"t","/","p">>
M_th == <<"t","/","h">>
M_ax == <<"a","/","x">>
M_ip == <<"i","/","p">>
M_zz == <<"z","/","z">>

\* the MIME databases: known type -> direct parents
MimeDbs ==
    { [t \in {M_tp, M_th, M_ax, M_ip} |->
            IF t = M_th THEN {M_tp} ELSE IF t = M_ax THEN {M_th} ELSE {}],
      [t \in {M_tp, M_th, M_ip} |-> IF t = M_ip THEN {M_th} ELSE {}] }

MimeInputs == {M_tp, M_th, M_ax, M_ip, M_zz}

\* what the "MimeTypes" entry of the root object may hold
MimeTypesValues ==
    {JUndef, JArr(<<JStr(M_tp)>>), JArr(<<JStr(M_ip), JStr(M_th)>>), JStr(M_tp), JArr(<<JStr(M_zz)>>)}

S_42 == <<"4","2">>

\* what the queried key may hold at the top level of the raw JSON
\* the numeral of IntMax + 1
S_big == <<"2","1","4","7","4","8","3","6","4","8">>

TopValues ==
    {JUndef, JNull, JStr(EmptyStr), JStr(S_v), JStr(S_42), JStr(S_true),
     JBool(TRUE), JBool(FALSE), JNum(7), JArr(<<JStr(S_a), JStr(S_b)>>), JArr(<< >>), JObj(EmptyObj),
     JHalf(1), JStr(<<"-","3">>), JStr(S_big), JArr(<<JStr(S_a), JNum(7)>>)}

\* what the queried key may hold inside the "KPlugin" object
RootValues == {JUndef, JStr(<<"n">>), JNum(3)}

\* an object from (key, value) pairs, leaving out the Undefined values
ObjOf(pairs) ==
    [k \in {p[1] : p \in {q \in pairs : q[2].type # "Undefined"}} |->
        (CHOOSE p \in pairs : p[1] = k)[2]]

AccessPool ==
    {ObjOf({<<"KPlugin", JObj(ObjOf({<<"MimeTypes", mt>>, <<"K", rv>>}))>>, <<"K", tv>>}) :
        mt \in MimeTypesValues, rv \in RootValues, tv \in TopValues}

KeyInputs == {"K", "Q"}
StringDefaults == {EmptyStr, <<"d">>}
IntDefaults == {0, 5}
ListDefaults == {<< >>, << <<"d">> >>}

InitAccess ==
    /\ disk = << >>
    /\ registry = << >>
    /\ libraryPaths = << >>
    /\ mimeParents \in MimeDbs
    /\ m = ctorDefault
    /\ other = ctorDefault
    /\ origin = Origin("default", EmptyStr, DoNotAllowEmptyMetaData)
    /\ res = NoRes
    /\ FindIdle
    /\ JobNew

ConstructDescriptor ==
    \E metaData \in AccessPool :
        Construct(ctorJson(metaData, EmptyStr), "json", EmptyStr, DoNotAllowEmptyMetaData)

Query(r) ==
    /\ res' = r
    /\ UNCHANGED <<m, other, origin>>
    /\ UNCHANGED restVars

CallValueString ==
    \E key \in KeyInputs, def \in StringDefaults :
        Query(ResFull("valueString", EmptyStr, EmptyStr, key, FALSE, def, 0, << >>,
                      FALSE, valueString(m, key, def), 0, << >>))

CallValueBool ==
    \E key \in KeyInputs, def \in BOOLEAN :
        Query(ResFull("valueBool", EmptyStr, EmptyStr, key, def, EmptyStr, 0, << >>,
                      valueBool(m, key, def), EmptyStr, 0, << >>))

CallValueInt ==
    \E key \in KeyInputs, def \in IntDefaults :
        Query(ResFull("valueInt", EmptyStr, EmptyStr, key, FALSE, EmptyStr, def, << >>,
                      FALSE, EmptyStr, valueInt(m, key, def), << >>))

CallValueStringList ==
    \E key \in KeyInputs, def \in ListDefaults :
        Query(ResFull("valueStringList", EmptyStr, EmptyStr, key, FALSE, EmptyStr, 0, def,
                      FALSE, EmptyStr, 0, valueStringList(m, key, def)))

CallSupportsMimeType ==
    \E mimeType \in MimeInputs :
        Query(Res("supportsMimeType", EmptyStr, mimeType, supportsMimeType(m, mimeParents, mimeType), EmptyStr))

NextAccess ==
    \/ ConstructDescriptor
    \/ CallValueString
    \/ CallValueBool
    \/ CallValueInt
    \/ CallValueStringList
    \/ CallSupportsMimeType

SpecAccess == InitAccess /\ [][NextAccess]_vars

(***************************************************************************)
(* Properties of the accessor specification                                *)
(***************************************************************************)
IsValueQuery == res.op \in {"valueString", "valueBool", "valueInt", "valueStringList"}

\* the entry of a key in the "KPlugin" object of the raw JSON
RootEntry(md, key) ==
    IF "KPlugin" \in DOMAIN md.m_metaData /\ md.m_metaData["KPlugin"].type = "Object"
       /\ key \in DOMAIN md.m_metaData["KPlugin"].o
    THEN md.m_metaData["KPlugin"].o[key]
    ELSE JUndef

\* the entry of a key at the top level of the raw JSON
TopEntry(md, key) ==
    IF key \in DOMAIN md.m_metaData THEN md.m_metaData[key] ELSE JUndef

\* what the four overloads return for an entry of their own JSON type, and
\* the default for an absent entry
ReadsEntry(entry) ==
    /\ (entry.type = "Undefined" =>
            /\ (res.op = "valueString" => res.outS = res.defS)
            /\ (res.op = "valueBool" => res.outB = res.defB)
            /\ (res.op = "valueInt" => res.outN = res.defN)
            /\ (res.op = "valueStringList" => res.outL = res.defL))
    /\ (res.op = "valueString" /\ entry.type = "String" => res.outS = entry.s)
    /\ (res.op = "valueBool" /\ entry.type = "Bool" => res.outB = entry.b)
    /\ (res.op = "valueInt" /\ entry.type = "Double" /\ ~entry.h
            => res.outN = entry.n)
    /\ (res.op = "valueStringList" /\ entry.type = "Array"
         /\ (\A i \in 1..Len(entry.a) : entry.a[i].type = "String")
            => res.outL = [i \in 1..Len(entry.a) |-> entry.a[i].s])

\* C9 as stated: every value(key, default) overload reads the key from the
\* nested "KPlugin" root object.
C9_ReadsKPluginRoot == IsValueQuery => ReadsEntry(RootEntry(m, res.key))

\* C9 amended: every value(key, default) overload reads the key from the top
\* level of the raw JSON object (rawData()), not from the "KPlugin" object
\* the standard accessors read.
C9_ReadsTopLevel == IsValueQuery => ReadsEntry(TopEntry(m, res.key))

\* a key held only by the "KPlugin" object was asked for and the default came back
C9_Witness ==
    /\ res.op = "valueString"
    /\ RootEntry(m, res.key) = JStr(<<"n">>)
    /\ TopEntry(m, res.key).type = "Undefined"
    /\ res.defS = <<"d">> /\ res.outS = <<"d">>

\* the declared MIME types: the "MimeTypes" array of the "KPlugin" object
Declared(md) ==
    LET e == RootEntry(md, "MimeTypes")
    IN  IF e.type = "Array" THEN {e.a[i].s : i \in 1..Len(e.a)}
        ELSE IF e.type = "String" THEN {e.s}
        ELSE {}

\* m inherits from t in the database: t is m or is reached through parents
RECURSIVE Reaches(_, _, _)
Reaches(from, to, n) ==
    \/ from = to
    \/ /\ n > 0
       /\ from \in DOMAIN mimeParents
       /\ \E p \in mimeParents[from] : Reaches(p, to, n - 1)

\* C10: supportsMimeType(m) is true when m is literally declared; otherwise
\* it is true exactly when m is known to the MIME database and inherits from
\* a declared type; for an m neither declared nor known it is false.
C10_SupportsMimeType ==
    res.op = "supportsMimeType" =>
        /\ (res.id \in Declared(m) => res.outB)
        /\ (res.id \notin Declared(m) =>
                (res.outB <=> (res.id \in DOMAIN mimeParents
                               /\ \E t \in Declared(m) : Reaches(res.id, t, Cardinality(DOMAIN mimeParents)))))
        /\ (res.id \notin Declared(m) /\ res.id \notin DOMAIN mimeParents => ~res.outB)

\* a type unknown to the database is supported because it is declared literally
C10_Witness ==
    /\ res.op = "supportsMimeType"
    /\ res.id \in Declared(m)
    /\ res.id \notin DOMAIN mimeParents
    /\ res.outB

\* what the int overload returns for a string entry and for an entry that
\* is neither a number nor a string
IntOfOtherEntries(e) ==
    /\ (e.type = "String" =>
            res.outN = IF strToInt(e.s).ok THEN strToInt(e.s).n ELSE res.defN)
    /\ (e = JStr(S_42) => res.outN = 42)
    /\ (e = JStr(<<"-","3">>) => res.outN = 0 - 3)
    /\ (e \in {JStr(S_v), JStr(S_big), JStr(EmptyStr)} => res.outN = res.defN)
    /\ (e.type \notin {"Double", "String"} => res.outN = res.defN)

\* C11 as stated: the int overload returns the stored number whenever the
\* key holds a JSON number; the default for an absent key, an unparsable
\* string or another type; the parsed integer for a numeral string.
C11_IntReturnsStoredNumber ==
    res.op = "valueInt" =>
        LET e == TopEntry(m, res.key)
        IN  /\ (e.type = "Double" => ~e.h /\ res.outN = e.n)
            /\ IntOfOtherEntries(e)

\* What the int overload does for a JSON number: it returns the number when
\* it is whole, and 0 (neither the number nor the default) when it is not;
\* the other cases are as C11 states them.
C11_IntValue ==
    res.op = "valueInt" =>
        LET e == TopEntry(m, res.key)
        IN  /\ (e.type = "Double" =>
                    res.outN = IF e.h THEN 0 ELSE e.n)
            /\ IntOfOtherEntries(e)

\* the key holds 1.5, the default is 5 and the int overload answered 0
C11_Witness ==
    /\ res.op = "valueInt"
    /\ TopEntry(m, res.key) = JHalf(1)
    /\ res.defN = 5
    /\ res.outN = 0

\* the string form of a scalar JSON value
ScalarText(e) ==
    CASE e.type = "String" -> e.s
      [] e.type = "Bool"   -> IF e.b THEN S_true ELSE S_false
      [] e.type = "Double" -> IF e.h THEN numberToStr(e.n) \o <<".","5">> ELSE numberToStr(e.n)
      [] OTHER             -> EmptyStr

\* C12: the string-list overload returns the elements of an array, a
\* one-element list for a scalar whose string form is non-empty, and the
\* default for an absent key, null, an object or a scalar with empty string form.
C12_StringListValue ==
    res.op = "valueStringList" =>
        LET e == TopEntry(m, res.key)
        IN  /\ (e.type = "Array" =>
                    /\ Len(res.outL) = Len(e.a)
                    /\ \A i \in 1..Len(e.a) : res.outL[i] = ScalarText(e.a[i]))
            /\ (e.type \in {"String", "Bool", "Double"} /\ ScalarText(e) # EmptyStr
                    => res.outL = <<ScalarText(e)>>)
            /\ (e.type \in {"Undefined", "Null", "Object"} => res.outL = res.defL)
            /\ (e.type \in {"String", "Bool", "Double"} /\ ScalarText(e) = EmptyStr
                    => res.outL = res.defL)
            /\ (e = JStr(S_v) => res.outL = << <<"v">> >>)
            /\ (e = JNum(7) => res.outL = << <<"7">> >>)

\* the key holds the empty string and the non-empty default came back
C12_Witness ==
    /\ res.op = "valueStringList"
    /\ TopEntry(m, res.key) = JStr(EmptyStr)
    /\ res.defL = << <<"d">> >>
    /\ res.outL = << <<"d">> >>

(***************************************************************************)
(* findPlugins                                                             *)
(***************************************************************************)
\* QStringList::removeAll
removeAll(list, x) == SelectSeq(list, LAMBDA y : y # x)

\* the directories to walk with the application directory prepended but
\* not removed from the library paths
dirsToCheck_keepsAppDir(libs, directory) ==
    IF startsWith(directory, "/") THEN <<directory>>
    ELSE LET paths == <<appDirPath>> \o libs
         IN  [i \in 1..Len(paths) |-> paths[i] \o <<"/">> \o directory]

\* forEachPlugin: the directories to walk
dirsToCheck(libs, directory) ==
    IF startsWith(directory, "/") THEN <<directory>>
    ELSE LET paths == <<appDirPath>> \o removeAll(libs, appDirPath)
         IN  [i \in 1..Len(paths) |-> paths[i] \o <<"/">> \o directory]

\* QDirIterator(dir, QDir::Files) with the isLibrary test: the absolute
\* paths of the libraries of one directory, in iteration order
librariesIn(d, dir) ==
    LET hits == SelectSeq(d, LAMBDA f : dirOf(f.path) = dir /\ isLibrary(fileNameOf(f.path)))
    IN  [i \in 1..Len(hits) |-> hits[i].path]

\* forEachPlugin: the files handed to the callback, in order
RECURSIVE filesOf(_, _)
filesOf(d, dirList) ==
    IF dirList = << >> THEN << >> ELSE librariesIn(d, Head(dirList)) \o filesOf(d, Tail(dirList))

forEachPlugin(d, libs, directory) == filesOf(d, dirsToCheck(libs, directory))

\* the predicates handed to findPlugins; "null" is the empty std::function
Filters == {"null", "hasTag", "idIsA"}

filterCall(filter, md) ==
    CASE filter = "hasTag" -> "X-Test" \in DOMAIN rawData(md)
      [] filter = "idIsA"  -> pluginId(md) = S_a
      [] OTHER             -> TRUE

\* the set of recorded identifiers kept from an earlier call
addedPluginIds_kept(previous) == previous

\* QSet<QString> addedPluginIds: the set the disk walk starts with
addedPluginIds_init(previous) == {}

\* the static loop body of findPlugins: the list after visiting plugin k
staticLoopBody(list, reg, k, a) ==
    LET metaData == staticMetaData(reg, k, a.option)
    IN  IF isValid(metaData) /\ (a.filter = "null" \/ filterCall(a.filter, metaData))
        THEN Append(list, metaData)
        ELSE list

\* the callback recording the identifier before it asks the predicate
callback_recordsFirst(list, ids, d, libs, pluginFile, a) ==
    LET metadata == ctorPluginFile(d, libs, pluginFile, a.option)
    IN  IF ~isValid(metadata) THEN [ret |-> list, ids |-> ids]
        ELSE IF pluginId(metadata) \in ids THEN [ret |-> list, ids |-> ids]
        ELSE IF a.filter # "null" /\ ~filterCall(a.filter, metadata)
             THEN [ret |-> list, ids |-> ids \cup {pluginId(metadata)}]
        ELSE [ret |-> Append(list, metadata), ids |-> ids \cup {pluginId(metadata)}]

\* the callback of findPlugins: the list and the recorded identifiers after
\* visiting a plugin file
callback(list, ids, d, libs, pluginFile, a) ==
    LET metadata == ctorPluginFile(d, libs, pluginFile, a.option)
    IN  IF ~isValid(metadata) THEN [ret |-> list, ids |-> ids]
        ELSE IF pluginId(metadata) \in ids THEN [ret |-> list, ids |-> ids]
        ELSE IF a.filter # "null" /\ ~filterCall(a.filter, metadata) THEN [ret |-> list, ids |-> ids]
        ELSE [ret |-> Append(list, metadata), ids |-> ids \cup {pluginId(metadata)}]

(***************************************************************************)
(* The discovery specification: findPlugins, called repeatedly with the    *)
(* same arguments on an unchanged environment                              *)
(***************************************************************************)
\* the number of plugin files on the disk
MaxFiles == 2
\* the number of statically registered plugins
MaxStatic == 1
\* the number of findPlugins calls
MaxCalls == 2

D_xd == appDirPath \o <<"/">> \o D_d
D_qd == D_q \o <<"/">> \o D_d

TagOnly == Obj1("X-Test", JStr(S_v))

\* the metadata objects embedded in plugin files and static plugins
EmbeddedPool == {WithId(S_a), TagOnly, EmptyObj}

FindFilePool ==
    {PluginFile(dir, name, TRUE, QtMeta(md)) :
        dir \in {D_xd, D_qd}, name \in {S_a, S_b}, md \in EmbeddedPool}
    \ {PluginFile(D_qd, S_b, TRUE, QtMeta(md)) : md \in EmbeddedPool}

\* a file of the plugin directory that is not a library
ReadMe == File(D_xd \o <<"/","n",".","t">>, TRUE, FALSE, FALSE, EmptyObj, FALSE, JNull)

\* the sequences of at most n elements of a set, without two files of one path
RECURSIVE DisksUpTo(_)
DisksUpTo(n) ==
    IF n = 0 THEN {<< >>}
    ELSE LET shorter == DisksUpTo(n - 1)
         IN  shorter \cup
             {Append(d, f) : d \in {x \in shorter : Len(x) = n - 1},
                             f \in FindFilePool} 

DistinctPaths(d) == \A i, j \in 1..Len(d) : d[i].path = d[j].path => i = j

FindStaticPool ==
    {StaticPlugin(D_d, Obj1("MetaData", JObj(md))) : md \in {WithId(S_a), EmptyObj}}
    \cup {StaticPlugin(D_d, Obj2("MetaData", JObj(TagOnly), "X-KDE-FileName", JStr(S_b)))}

RECURSIVE RegistriesUpTo(_)
RegistriesUpTo(n) ==
    IF n = 0 THEN {<< >>}
    ELSE LET shorter == RegistriesUpTo(n - 1)
         IN  shorter \cup
             {Append(r, p) : r \in {x \in shorter : Len(x) = n - 1}, p \in FindStaticPool}

FindDirectories == {D_d, D_qd}

InitFind ==
    /\ disk \in {<<ReadMe>> \o d : d \in {x \in DisksUpTo(MaxFiles) : DistinctPaths(x)}}
    /\ registry \in RegistriesUpTo(MaxStatic)
    /\ libraryPaths \in {<<D_q>>, <<D_q, appDirPath, D_q>>}
    /\ mimeParents = NoMime
    /\ m = ctorDefault
    /\ other = ctorDefault
    /\ origin = Origin("default", EmptyStr, DoNotAllowEmptyMetaData)
    /\ res = NoRes
    /\ pc = "idle"
    /\ args \in {Args(directory, filter, option) :
                    directory \in FindDirectories, filter \in Filters, option \in Options}
    /\ ret = << >>
    /\ addedPluginIds = {}
    /\ staticQueue = << >>
    /\ fileQueue = << >>
    /\ returned = << >>
    /\ dirs = << >>
    /\ JobNew

\* findPlugins is entered: ret is empty, the static plugins are fetched
FindPluginsBegin ==
    /\ pc = "idle"
    /\ Len(returned) < MaxCalls
    /\ pc' = "static"
    /\ ret' = << >>
    /\ staticQueue' = staticPlugins(registry, args.directory)
    /\ UNCHANGED <<args, addedPluginIds, fileQueue, returned, dirs>>
    /\ UNCHANGED <<envVars, metaVars, jobVars>>

\* one iteration of the loop over the static plugins
StaticPluginStep ==
    /\ pc = "static"
    /\ staticQueue # << >>
    /\ ret' = staticLoopBody(ret, registry, Head(staticQueue), args)
    /\ staticQueue' = Tail(staticQueue)
    /\ UNCHANGED <<pc, args, addedPluginIds, fileQueue, returned, dirs>>
    /\ UNCHANGED <<envVars, metaVars, jobVars>>

\* the static loop is over: addedPluginIds is declared, forEachPlugin lists the files
ForEachPluginBegin ==
    /\ pc = "static"
    /\ staticQueue = << >>
    /\ pc' = "disk"
    /\ addedPluginIds' = addedPluginIds_init(addedPluginIds)
    /\ dirs' = dirsToCheck(libraryPaths, args.directory)
    /\ fileQueue' = forEachPlugin(disk, libraryPaths, args.directory)
    /\ UNCHANGED <<args, ret, staticQueue, returned>>
    /\ UNCHANGED <<envVars, metaVars, jobVars>>

\* forEachPlugin hands one file to the callback
PluginFileStep ==
    /\ pc = "disk"
    /\ fileQueue # << >>
    /\ LET r == callback(ret, addedPluginIds, disk, libraryPaths, Head(fileQueue), args)
       IN  /\ ret' = r.ret
           /\ addedPluginIds' = r.ids
    /\ fileQueue' = Tail(fileQueue)
    /\ UNCHANGED <<pc, args, staticQueue, returned, dirs>>
    /\ UNCHANGED <<envVars, metaVars, jobVars>>

\* findPlugins returns ret
FindPluginsReturn ==
    /\ pc = "disk"
    /\ fileQueue = << >>
    /\ pc' = "idle"
    /\ returned' = Append(returned, ret)
    /\ dirs' = << >>
    /\ UNCHANGED <<args, ret, addedPluginIds, staticQueue, fileQueue>>
    /\ UNCHANGED <<envVars, metaVars, jobVars>>

NextFind ==
    \/ FindPluginsBegin
    \/ StaticPluginStep
    \/ ForEachPluginBegin
    \/ PluginFileStep
    \/ FindPluginsReturn

SpecFind == InitFind /\ [][NextFind]_vars

(***************************************************************************)
(* Properties of the discovery specification                               *)
(***************************************************************************)
\* C3: a list returned by findPlugins never contains two entries with the
\* same pluginId().
C3_NoDuplicateIds ==
    \A c \in 1..Len(returned) :
        \A i, j \in 1..Len(returned[c]) :
            pluginId(returned[c][i]) = pluginId(returned[c][j]) => i = j

\* C4: whenever a statically registered plugin with identifier X is in the
\* result, no disk-discovered plugin with identifier X is in the result.
C4_StaticPriority ==
    \A c \in 1..Len(returned) :
        \A i, j \in 1..Len(returned[c]) :
            returned[c][i].staticPlugin # 0 /\ returned[c][j].staticPlugin = 0
                => pluginId(returned[c][i]) # pluginId(returned[c][j])

\* C5: with the registry, the library paths and the file system unchanged,
\* two findPlugins calls with the same directory, predicate and option return
\* lists of the same length whose elements are pairwise equal under operator==.
C5_Idempotent ==
    \A c, e \in 1..Len(returned) :
        /\ Len(returned[c]) = Len(returned[e])
        /\ \A i \in 1..Len(returned[c]) : opEq(returned[c][i], returned[e][i])

\* two calls have returned, and the disk walk skipped a file whose identifier
\* was already recorded
C5_Witness ==
    /\ Len(returned) = 2
    /\ Len(returned[2]) >= 1
    /\ \E i, j \in 1..Len(disk) :
          /\ i < j
          /\ \E k \in 1..Len(returned[2]) : returned[2][k].m_fileName = disk[i].path
          /\ ~\E k \in 1..Len(returned[2]) : returned[2][k].m_fileName = disk[j].path
          /\ isValid(ctorPluginFile(disk, libraryPaths, disk[j].path, args.option))
          /\ pluginId(ctorPluginFile(disk, libraryPaths, disk[j].path, args.option))
                = pluginId(ctorPluginFile(disk, libraryPaths, disk[i].path, args.option))
          /\ (args.filter = "null"
              \/ filterCall(args.filter, ctorPluginFile(disk, libraryPaths, disk[j].path, args.option)))

\* a sequence without its repeated elements, first occurrences kept
RECURSIVE Deduplicated(_)
Deduplicated(seq) ==
    IF seq = << >> THEN << >>
    ELSE LET front == Deduplicated(SubSeq(seq, 1, Len(seq) - 1))
             last  == seq[Len(seq)]
         IN  IF \E i \in 1..Len(front) : front[i] = last THEN front ELSE Append(front, last)

\* the directory name appended to each path
InDirectory(paths, directory) ==
    [i \in 1..Len(paths) |-> paths[i] \o <<"/">> \o directory]

\* a sequence without the occurrences of x
RECURSIVE Without(_, _)
Without(seq, x) ==
    IF seq = << >> THEN << >>
    ELSE IF Head(seq) = x THEN Without(Tail(seq), x)
    ELSE <<Head(seq)>> \o Without(Tail(seq), x)

Acceptable(pluginFile) ==
    LET metadata == ctorPluginFile(disk, libraryPaths, pluginFile, args.option)
    IN  isValid(metadata) /\ (args.filter = "null" \/ filterCall(args.filter, metadata))

IdOfFile(pluginFile) ==
    pluginId(ctorPluginFile(disk, libraryPaths, pluginFile, args.option))

\* C17: during the disk walk an identifier is recorded only for an accepted
\* file; when the walk is over, every element of the list to return is valid
\* and passes the predicate; for each identifier the disk-discovered entry
\* is the first file in walk order that is valid and passes the predicate,
\* and a file the predicate rejects never suppresses a later file with the
\* same identifier.
C17_FirstAcceptedFileWins ==
    pc = "disk" =>
        /\ \A id \in addedPluginIds :
              \E k \in 1..Len(ret) : ret[k].staticPlugin = 0 /\ pluginId(ret[k]) = id
        /\ fileQueue = << >> =>
            LET walk == filesOf(disk, dirs)
                fromDisk == {k \in 1..Len(ret) : ret[k].staticPlugin = 0}
            IN  /\ \A k \in 1..Len(ret) :
                      /\ (ret[k].m_option = AllowEmptyMetaData \/ ~objIsEmpty(ret[k].m_metaData))
                      /\ (args.filter = "null" \/ filterCall(args.filter, ret[k]))
                /\ \A k \in fromDisk :
                      \E i \in 1..Len(walk) :
                          /\ walk[i] = ret[k].m_fileName
                          /\ Acceptable(walk[i])
                          /\ \A j \in 1..(i - 1) :
                                Acceptable(walk[j]) => IdOfFile(walk[j]) # pluginId(ret[k])
                /\ \A i \in 1..Len(walk) :
                      Acceptable(walk[i]) =>
                          \E k \in fromDisk : pluginId(ret[k]) = IdOfFile(walk[i])

\* the walk is over: the predicate rejected a valid file, and a later file
\* with the same identifier is in the list to return
C17_Witness ==
    /\ pc = "disk"
    /\ fileQueue = << >>
    /\ LET walk == filesOf(disk, dirs)
       IN  \E i, j \in 1..Len(walk) :
              /\ i < j
              /\ isValid(ctorPluginFile(disk, libraryPaths, walk[i], args.option))
              /\ ~Acceptable(walk[i])
              /\ IdOfFile(walk[i]) = IdOfFile(walk[j])
              /\ \E k \in 1..Len(ret) :
                    ret[k].staticPlugin = 0 /\ ret[k].m_fileName = walk[j]

(***************************************************************************)
(* The job specification: KJobTest drives one TestJob through start, kill  *)
(* and exec, then lets the event loop run                                  *)
(***************************************************************************)
\* the number of actions the test performs on the job before it runs the loop
MaxActions == 2

S_oops == <<"o","o","p","s">>

ErrorCodeInputs == {NoError, ErrorTwo}
ErrorTextInputs == {EmptyStr, S_oops}
Verbosities == {Quietly, EmitResult}

InitJob ==
    /\ disk = << >>
    /\ registry = << >>
    /\ libraryPaths = << >>
    /\ mimeParents = NoMime
    /\ m = ctorDefault
    /\ other = ctorDefault
    /\ origin = Origin("default", EmptyStr, DoNotAllowEmptyMetaData)
    /\ res = NoRes
    /\ FindIdle
    /\ JobNew

Now == World(job, events, loop, test)

SetJob(w) ==
    /\ job' = w.job
    /\ events' = w.events
    /\ loop' = w.loop
    /\ test' = w.test
    /\ UNCHANGED <<envVars, metaVars, findVars>>

\* the name a kill gets in the list of performed actions
killName(verbosity, direct) ==
    (IF direct THEN "Direct" ELSE "") \o (IF verbosity = Quietly THEN "KillQuietly" ELSE "KillVerbosely")

Performed(w, name) == [w EXCEPT !.test.actions = Append(@, name)]

\* setupErrorResultFinished, with the setAutoDelete, setError and
\* setErrorText calls the tests make on the new job
SetupJob ==
    /\ test.pc = "new"
    /\ \E autoDelete \in BOOLEAN, errorCode \in ErrorCodeInputs, errorText \in ErrorTextInputs :
          SetJob(World([isFinished |-> FALSE, error |-> errorCode, errorText |-> errorText,
                        autoDelete |-> autoDelete, alive |-> TRUE, eventLoop |-> FALSE],
                       << >>,
                       NoLoop,
                       [pc |-> "script", actions |-> << >>, autoDelete |-> autoDelete,
                        errorCode |-> errorCode, errorText |-> errorText,
                        m_lastError |-> UserDefinedError, m_lastErrorText |-> EmptyStr,
                        sawFinished |-> TRUE,
                        m_resultCount |-> 0, m_finishedCount |-> 0, destroyed |-> 0]))

CanAct == test.pc = "script" /\ Len(test.actions) < MaxActions

\* job->start()
TestStart ==
    /\ CanAct
    /\ SetJob(Performed(start(Now), "Start"))

\* QTimer::singleShot(0, job, [=] { job->kill(verbosity); })
TestScheduleKill ==
    /\ CanAct
    /\ \E verbosity \in Verbosities :
          SetJob(Performed([Now EXCEPT !.events = Append(@, Event("kill", verbosity, 0))],
                           killName(verbosity, FALSE)))

\* job->kill(verbosity), called by the test itself
TestKill ==
    /\ CanAct
    /\ \E verbosity \in Verbosities :
          SetJob(Performed(kill(Now, verbosity), killName(verbosity, TRUE)))

\* KJob::exec up to its event loop: autoDelete is switched off, the job is
\* started, and the loop of exec() runs unless the job has finished already
KJobExec ==
    /\ CanAct
    /\ LET w1 == start(Performed([Now EXCEPT !.job.autoDelete = FALSE, !.job.eventLoop = TRUE],
                                 "Exec"))
           w2 == [w1 EXCEPT !.job.eventLoop = FALSE]
       IN  IF ~w1.job.isFinished
           THEN SetJob([w1 EXCEPT !.test.pc = "jobExec",
                                  !.loop = [mode |-> "jobExec", passLeft |-> 0, delivered |-> TRUE,
                                            exit |-> FALSE, wasAutoDelete |-> job.autoDelete]])
           ELSE SetJob(IF job.autoDelete THEN deleteLater(w2) ELSE w2)

\* KJob::exec after its event loop: deleteLater if the job was auto-deleting
KJobExecReturn ==
    /\ loop.mode = "jobExec"
    /\ loop.passLeft = 0
    /\ loop.exit
    /\ LET w == [Now EXCEPT !.loop = NoLoop, !.job.eventLoop = FALSE, !.test.pc = "script"]
       IN  SetJob(IF loop.wasAutoDelete THEN deleteLater(w) ELSE w)

\* loop.processEvents(QEventLoop::AllEvents, 2000)
ProcessEvents ==
    /\ test.pc = "script"
    /\ Len(test.actions) >= 1
    /\ SetJob([Now EXCEPT !.test.pc = "processEvents",
                          !.loop = [mode |-> "processEvents", passLeft |-> 0, delivered |-> TRUE,
                                    exit |-> FALSE, wasAutoDelete |-> FALSE]])

\* processEvents returns once a pass has sent nothing
ProcessEventsReturn ==
    /\ loop.mode = "processEvents"
    /\ loop.passLeft = 0
    /\ events = << >> \/ ~loop.delivered
    /\ SetJob([Now EXCEPT !.loop = NoLoop, !.test.pc = "pumped"])

\* loop.exec(): after QTimer::singleShot(0, &loop, SLOT(quit())), which the
\* tests do once the job has finished, to see it deleted; or, without that
\* timer, to wait for the result slot to quit the loop
LoopExec ==
    \E timer \in BOOLEAN :
        /\ IF timer THEN test.pc \in {"script", "pumped", "resulted"} /\ job.isFinished
                    ELSE test.pc = "script" /\ Len(test.actions) >= 1
        /\ SetJob([Now EXCEPT !.test.pc = IF timer THEN "lastLoop" ELSE "resultLoop",
                              !.events = IF timer THEN Append(@, Event("quit", Quietly, 0)) ELSE @,
                              !.loop = [mode |-> "exec", passLeft |-> 0, delivered |-> TRUE,
                                        exit |-> FALSE, wasAutoDelete |-> FALSE]])

\* loop.exec() returns after quit()
LoopExecReturn ==
    /\ loop.mode = "exec"
    /\ loop.passLeft = 0
    /\ loop.exit
    /\ SetJob([Now EXCEPT !.loop = NoLoop,
                          !.test.pc = IF test.pc = "lastLoop" THEN "done" ELSE "resulted"])

\* QCoreApplication::sendPostedEvents begins: the events posted so far make
\* the pass, events posted during the pass wait for the next one
BeginPass ==
    /\ loop.mode # "none"
    /\ loop.passLeft = 0
    /\ events # << >>
    /\ IF loop.mode = "processEvents" THEN loop.delivered ELSE ~loop.exit
    /\ SetJob([Now EXCEPT !.loop.passLeft = Len(events),
                          !.loop.delivered = (loop.mode # "processEvents")])

Sending(kind) == loop.passLeft > 0 /\ Head(events).kind = kind

\* the world with the first event taken off the queue
Taken == [Now EXCEPT !.events = Tail(@), !.loop.passLeft = @ - 1, !.loop.delivered = TRUE]

\* the zero timer of TestJob::start fires
DeliverEmitResult ==
    /\ Sending("emitResult")
    /\ SetJob(emitResult(Taken))

\* the zero timer of a scheduled kill fires
DeliverKill ==
    /\ Sending("kill")
    /\ SetJob(kill(Taken, Head(events).verbosity))

\* the zero timer of loop.quit() fires
DeliverQuit ==
    /\ Sending("quit")
    /\ SetJob([Taken EXCEPT !.loop.exit = IF loop.mode = "exec" THEN TRUE ELSE @])

\* the deferred delete is sent: the job is deleted
DeliverDeferredDelete ==
    /\ Sending("deferredDelete")
    /\ allowDeferredDelete(loop, Head(events))
    /\ SetJob(destroyJob(Taken, Len(notForJob(SubSeq(events, 2, loop.passLeft)))))

\* the deferred delete is not sent by this loop and is posted again
RepostDeferredDelete ==
    /\ Sending("deferredDelete")
    /\ ~allowDeferredDelete(loop, Head(events))
    /\ SetJob([Now EXCEPT !.events = Append(Tail(@), Head(events)), !.loop.passLeft = @ - 1])

NextJob ==
    \/ SetupJob
    \/ TestStart
    \/ TestScheduleKill
    \/ TestKill
    \/ KJobExec
    \/ KJobExecReturn
    \/ ProcessEvents
    \/ ProcessEventsReturn
    \/ LoopExec
    \/ LoopExecReturn
    \/ BeginPass
    \/ DeliverEmitResult
    \/ DeliverKill
    \/ DeliverQuit
    \/ DeliverDeferredDelete
    \/ RepostDeferredDelete

SpecJob == InitJob /\ [][NextJob]_vars

(***************************************************************************)
(* Properties of the job specification                                     *)
(***************************************************************************)
\* the actions of testEmitAtMostOnce: start, and the kills scheduled by a timer
ScheduledActions == {"Start", "KillQuietly", "KillVerbosely"}

Scheduled ==
    /\ Len(test.actions) >= 1
    /\ \A i \in 1..Len(test.actions) : test.actions[i] \in ScheduledActions

\* the event loop has processed all events: processEvents has returned, or
\* the last loop.exec() has
Processed == test.pc \in {"pumped", "done"}

\* C14: for a job on which start, kill(Quietly) and kill(EmitResult) were
\* scheduled in any order, with autoDelete on or off, once the event loop
\* has processed all events finished was emitted exactly once and result at
\* most once, the job is finished, and it is destroyed iff autoDelete is on.
C14_FinishedOnce ==
    Scheduled /\ Processed =>
        /\ test.m_finishedCount = 1
        /\ test.m_resultCount <= 1
        /\ job.isFinished
        /\ test.sawFinished
        /\ (test.destroyed = 1 <=> test.autoDelete)
        /\ (test.destroyed = 0 <=> ~test.autoDelete)
        /\ (job.alive <=> ~test.autoDelete)
        /\ events = << >>

\* two kills were scheduled on an auto-deleting job; processEvents has
\* returned, finished was emitted once and the job is destroyed
C14_Witness ==
    /\ test.pc = "pumped"
    /\ test.actions = <<"KillQuietly", "KillVerbosely">>
    /\ test.autoDelete
    /\ test.m_finishedCount = 1
    /\ test.destroyed = 1

\* the kills the test calls itself
DirectKills == {"DirectKillQuietly", "DirectKillVerbosely"}

\* the action that finishes the job: the first kill the test calls itself,
\* if there is one, else the first scheduled action
FirstFinisher ==
    LET direct == {i \in 1..Len(test.actions) : test.actions[i] \in DirectKills}
    IN  IF direct = {} THEN test.actions[1]
        ELSE test.actions[CHOOSE i \in direct : \A j \in direct : i <= j]

\* the test has only started and killed the job (no exec)
StartsAndKills ==
    /\ Len(test.actions) >= 1
    /\ \A i \in 1..Len(test.actions) : test.actions[i] \in ScheduledActions \cup DirectKills

\* what C15 says of kills, and of the finished slot
KillOutcome ==
    /\ (FirstFinisher \in {"KillQuietly", "DirectKillQuietly"}
            => job.error = KilledJobError /\ test.m_resultCount = 0)
    /\ (FirstFinisher \in {"KillVerbosely", "DirectKillVerbosely"}
            => job.error = KilledJobError /\ test.m_resultCount = 1)
    /\ test.m_finishedCount = 1
    /\ test.m_lastError = job.error

\* C15 as stated: the first action that finishes the job determines the
\* outcome: by emitResult (start) the error is NoError and result is emitted
\* once; by kill the error is KilledJobError and result is emitted once for
\* EmitResult and never for Quietly; the finished slot saw the job's final
\* error and error text.
C15_StartGivesNoError ==
    StartsAndKills /\ Processed =>
        /\ (FirstFinisher = "Start" => job.error = NoError /\ test.m_resultCount = 1)
        /\ KillOutcome
        /\ test.m_lastErrorText = job.errorText

\* C15 amended: a job that finishes by emitResult (start) keeps the error
\* that was set on it before (NoError if none was set) and emits result
\* once; the kills are as stated; the finished slot records the job's final
\* error, and its final error text unless the error is NoError, for which
\* it records the empty text.
C15_FirstFinisherDecides ==
    StartsAndKills /\ Processed =>
        /\ (FirstFinisher = "Start" =>
                /\ job.error = test.errorCode
                /\ (test.errorCode = NoError => job.error = NoError)
                /\ test.m_resultCount = 1)
        /\ job.errorText = test.errorText
        /\ KillOutcome
        /\ test.m_lastErrorText = IF job.error = NoError THEN EmptyStr ELSE job.errorText

\* error 2 was set on the job, it was started and then killed: it finished
\* with error 2 and one result
C15_Witness ==
    /\ Processed
    /\ test.actions = <<"Start", "KillQuietly">>
    /\ test.errorCode = ErrorTwo
    /\ job.error = ErrorTwo
    /\ test.m_lastError = ErrorTwo
    /\ test.errorText = S_oops
    /\ test.m_lastErrorText = S_oops
    /\ test.m_resultCount = 1

\* the step finishes the job
Finishes == ~job.isFinished /\ job'.isFinished

\* the step is a kill called by the test, or the return of exec()
KillOrExecReturns ==
    \/ /\ Len(test'.actions) > Len(test.actions)
       /\ test'.actions[Len(test'.actions)] \in DirectKills \cup {"Exec"}
       /\ test'.pc = "script"
    \/ test.pc = "jobExec" /\ test'.pc = "script"

\* C16: an auto-deleting job is not destroyed by the step that finishes it
\* (emitResult after start, exec, kill with either verbosity): it is finished
\* and destroyed has not been emitted; destroyed is emitted only by a step
\* of an event loop, at most once, and it has been emitted once when the
\* last loop.exec() has returned.
C16_DestroyedInTheLoop ==
    /\ [][/\ (Finishes => job'.alive /\ test'.destroyed = 0)
          /\ (KillOrExecReturns => job'.isFinished /\ job'.alive /\ test'.destroyed = test.destroyed)
          /\ (test'.destroyed # test.destroyed => loop.mode \in {"processEvents", "exec"}
                                                  /\ job.isFinished)]_vars
    /\ [](test.destroyed <= 1)
    /\ [](test.pc = "done" /\ test.autoDelete /\ job.isFinished => test.destroyed = 1 /\ ~job.alive)

\* an auto-deleting job was killed by the test: it is finished and not
\* destroyed while the test has not run the loop
C16_Witness ==
    /\ test.pc = "script"
    /\ test.actions = <<"DirectKillQuietly">>
    /\ test.autoDelete
    /\ job.isFinished
    /\ job.alive
    /\ test.destroyed = 0
    /\ \E i \in 1..Len(events) : events[i].kind = "deferredDelete"

====
